---- MODULE Spec2Model ----
(***************************************************************************)
(* Recruiting-data extraction of sportsdataverse-js: the football (cfb) and *)
(* men's basketball (mbb) operations getPlayerRankings, getSchoolRankings   *)
(* and getSchoolCommits.  Each is an async function: a synchronous prefix   *)
(* that builds the request (or throws), one awaited axios.get, and a        *)
(* synchronous continuation that parses the page and walks the candidate    *)
(* list elements.                                                           *)
(*                                                                          *)
(* Text is a sequence of characters, so that trim, split and replace are    *)
(* computed and not assumed (a literal no operation looks inside, such as   *)
(* 'uncommitted', is kept as one token).  A page is a sequence of list      *)
(* elements; an element records, for every selector the code applies to    *)
(* it, the sub-elements that selector matches, in document order.           *)
(***************************************************************************)
EXTENDS Integers, Sequences, FiniteSets, TLC

VARIABLES calls

vars == <<calls>>

---------------------------------------------------------------------------
(* Bounds of the model *)

MaxItems == 3
MaxPage == 2
MaxYellow == 6

(* rank = 1 + 50 * (page - 1) *)
PageSize == 50

---------------------------------------------------------------------------
(* JavaScript strings and values *)

Whitespace == {" ", "\n"}

RECURSIVE TrimStart(_)
TrimStart(s) ==
    IF s # <<>> /\ Head(s) \in Whitespace THEN TrimStart(Tail(s)) ELSE s

RECURSIVE TrimEnd(_)
TrimEnd(s) ==
    IF s # <<>> /\ s[Len(s)] \in Whitespace
    THEN TrimEnd(SubSeq(s, 1, Len(s) - 1))
    ELSE s

(* String.prototype.trim *)
Trim(s) == TrimEnd(TrimStart(s))

(* a JavaScript value that is either a string or undefined *)
Undefined == [t |-> "undefined"]
Str(s) == [t |-> "string", v |-> s]

(* array[i] with a zero-based index: undefined when out of range *)
At(arr, i) == IF i + 1 \in 1..Len(arr) THEN Str(arr[i + 1]) ELSE Undefined

(* String.prototype.split(sep) for a one-character separator: never empty *)
RECURSIVE SplitFrom(_, _, _, _)
SplitFrom(s, sep, cur, acc) ==
    IF s = <<>> THEN Append(acc, cur)
    ELSE IF Head(s) = sep THEN SplitFrom(Tail(s), sep, <<>>, Append(acc, cur))
    ELSE SplitFrom(Tail(s), sep, Append(cur, Head(s)), acc)

Split(s, sep) == SplitFrom(s, sep, <<>>, <<>>)

IsPrefix(p, s) == Len(p) <= Len(s) /\ SubSeq(s, 1, Len(p)) = p

(* String.prototype.replace(pattern, '') with a string pattern: the first *)
(* occurrence only *)
RECURSIVE ReplaceFirst(_, _)
ReplaceFirst(s, pat) ==
    IF IsPrefix(pat, s) THEN SubSeq(s, Len(pat) + 1, Len(s))
    ELSE IF s = <<>> THEN <<>>
    ELSE <<Head(s)>> \o ReplaceFirst(Tail(s), pat)

(* value ?? fallback: only undefined gives way to the fallback *)
OrElseNullish(v, fallback) == IF v = Undefined THEN fallback ELSE v

(* value || fallback: undefined and the empty string are falsy *)
Falsy(v) == v = Undefined \/ v = Str(<<>>)
OrElse(v, fallback) == IF Falsy(v) THEN fallback ELSE v

---------------------------------------------------------------------------
(* cheerio selections inside one element *)

(* .text() of a selection: the texts of all matched elements, concatenated *)
RECURSIVE TextOf(_)
TextOf(sel) == IF sel = <<>> THEN <<>> ELSE Head(sel) \o TextOf(Tail(sel))

(* .first() of a selection *)
First(sel) == IF sel = <<>> THEN <<>> ELSE <<Head(sel)>>

(* $(selection[i]): the i-th matched element, or the empty selection *)
Nth(sel, i) == IF i + 1 \in 1..Len(sel) THEN <<sel[i + 1]>> ELSE <<>>

(* .attr(name) of a selection: the attribute of the first matched element *)
AttrOf(sel) == IF sel = <<>> THEN Undefined ELSE Head(sel)

(* a '.score' element: its own text nodes and the text of its children *)
RECURSIVE FullTexts(_)
FullTexts(sel) ==
    IF sel = <<>> THEN <<>>
    ELSE <<Head(sel).own \o Head(sel).kids>> \o FullTexts(Tail(sel))

(* .clone().children().remove().end(): the matched elements without their *)
(* children *)
RECURSIVE OwnTexts(_)
OwnTexts(sel) ==
    IF sel = <<>> THEN <<>> ELSE <<Head(sel).own>> \o OwnTexts(Tail(sel))

---------------------------------------------------------------------------
(* Pages *)

(* An element without any of the sub-elements the code looks for.          *)
(*   item    it carries the list-item class of its page                    *)
(*           (rankings-page__list-item, ri-page__list-item)                *)
(*   header  it also carries rankings-page__list-item--header              *)
(*   inList  it is an li that is a child of ul.rankings-page__list         *)
(* The other fields are the selections of the field selectors inside it;   *)
(* yellow is the number of '.yellow' elements of its star block and img    *)
(* holds the title attribute of each '.img-link > img'.                     *)
Bare ==
    [item |-> TRUE, header |-> FALSE, inList |-> TRUE,
     nameLink |-> <<>>, meta |-> <<>>, position |-> <<>>, metrics |-> <<>>,
     yellow |-> 0, score |-> <<>>, img |-> <<>>,
     natrank |-> <<>>, sttrank |-> <<>>, posrank |-> <<>>,
     rankPrimary |-> <<>>, totalLink |-> <<>>, starDivs |-> <<>>,
     avg |-> <<>>, number |-> <<>>]

Full ==
    [Bare EXCEPT
       !.nameLink = << <<" ", "A", " ">> >>,
       !.meta = << <<"H", "\n">> >>,
       !.position = << <<"Q">> >>,
       !.metrics = << <<"6", "/", "2">> >>,
       !.yellow = 3,
       !.score = << [own |-> <<"9">>, kids |-> <<>>] >>,
       !.img = << Str(<<"U">>) >>,
       !.natrank = << <<"1">> >>,
       !.sttrank = << <<"2">> >>,
       !.posrank = << <<"3">> >>,
       !.rankPrimary = << <<"1">> >>,
       !.totalLink = << <<"7">> >>,
       !.starDivs = << <<"5", ":", " ", "1">>, <<"4", ":", " ", "2">>,
                       <<"3", ":", " ", "4">> >>,
       !.avg = << <<"8">> >>,
       !.number = << <<"9">> >>]

(* every text selector matches twice, and the metrics have no '/' *)
Doubled ==
    [Full EXCEPT
       !.nameLink = << <<"A">>, <<"B">> >>,
       !.meta = << <<"H">>, <<"I">> >>,
       !.position = << <<"Q">>, <<"R">> >>,
       !.metrics = << <<"6">> >>,
       !.score = << [own |-> <<"9">>, kids |-> <<"x">>],
                    [own |-> <<"8">>, kids |-> <<>>] >>,
       !.img = << Undefined, Str(<<"U">>) >>,
       !.natrank = << <<"1">>, <<"5">> >>,
       !.rankPrimary = << <<"1">>, <<"2">> >>,
       !.starDivs = << <<"5", ":", " ", "1">> >>]

Elems ==
    { "full", "bare", "doubled", "blank-name", "nested-score", "untitled-img",
      "empty-title", "all-yellow", "header", "loose", "other" }

(* The sub-elements the operations look for inside an item *)
PlayerParts ==
    {"nameLink", "meta", "position", "metrics", "yellow", "score", "img"}
CommitParts ==
    {"nameLink", "meta", "position", "metrics", "yellow", "score",
     "natrank", "sttrank", "posrank"}
SchoolParts ==
    {"rankPrimary", "nameLink", "totalLink", "starDivs", "avg", "number"}
Parts ==
    <<"nameLink", "meta", "position", "metrics", "yellow", "score", "img",
      "natrank", "sttrank", "posrank", "rankPrimary", "totalLink", "starDivs",
      "avg", "number">>

(* the full item with the sub-elements of S taken out *)
Without(S) == [f \in DOMAIN Full |-> IF f \in S THEN Bare[f] ELSE Full[f]]

(* its name: a mark for each of Parts, "-" where it is taken out *)
RECURSIVE Marks(_, _)
Marks(S, i) ==
    IF i > Len(Parts) THEN ""
    ELSE (IF Parts[i] \in S THEN "-" ELSE "+") \o Marks(S, i + 1)

(* the items that lack some of the sub-elements one operation looks for, *)
(* each with its name *)
Lacks == SUBSET PlayerParts \cup SUBSET CommitParts \cup SUBSET SchoolParts
Named == { <<"lacking " \o Marks(S, 1), S>> : S \in Lacks }
Lacking(S) == (CHOOSE item \in Named : item[2] = S)[1]
Sparse == { item[1] : item \in Named }
Shapes == Elems \cup Sparse

(* the elements pages are made of, by name *)
Element ==
    [id \in Shapes |->
       CASE id \in Sparse -> Without((CHOOSE item \in Named : item[1] = id)[2])
         [] id = "full" -> Full
         [] id = "bare" -> Bare
         [] id = "doubled" -> Doubled
         [] id = "blank-name" -> [Full EXCEPT !.nameLink = << <<" ">> >>]
         [] id = "nested-score" ->
                [Full EXCEPT !.score = << [own |-> <<>>, kids |-> <<"9">>] >>]
         [] id = "untitled-img" -> [Full EXCEPT !.img = << Undefined >>]
         [] id = "empty-title" -> [Full EXCEPT !.img = << Str(<<>>) >>]
         [] id = "all-yellow" -> [Full EXCEPT !.yellow = MaxYellow]
         [] id = "header" -> [Bare EXCEPT !.header = TRUE]
         [] id = "loose" -> [Full EXCEPT !.inList = FALSE]
         [] id = "other" -> [Full EXCEPT !.item = FALSE]]

(* res.data: the pages a fetch can deliver *)
Docs == UNION { [1..n -> Elems] : n \in 0..MaxItems }

(* the pages served while two calls are followed together *)
FewDocs ==
    { <<>>, <<"full">>, <<"header", "full", "blank-name">>,
      <<"bare", "loose", "all-yellow">>, <<"doubled", "empty-title">>,
      <<"nested-score", "other", "untitled-img">> }

(* listings about a page long: one short of, just as many as, or one more *)
(* than PageSize players, bare or between a header row and a stray element *)
Run(e, n) == [i \in 1..n |-> e]

LongDocs ==
    { around[1] \o Run(e, n) \o around[2] :
          around \in {<<<<>>, <<>>>>, <<<<"header">>, <<"other">>>>},
          e \in {"full", "bare"},
          n \in (PageSize - 1)..(PageSize + 1) }

(* pages with an item that lacks some of parts: alone, before a full item *)
(* and after an empty one *)
SparseDocs(parts) ==
    UNION { {<<Lacking(S)>>, <<Lacking(S), "full">>, <<"bare", Lacking(S)>>} :
                S \in SUBSET parts }

PlayerSparseDocs == SparseDocs(PlayerParts)
SchoolSparseDocs == SparseDocs(SchoolParts)
CommitSparseDocs == SparseDocs(CommitParts)

---------------------------------------------------------------------------
(* Item selectors: the indices of the matched elements, in document order  *)

(* matching is the set of the elements of Elems that the selector matches *)
RECURSIVE SelectFrom(_, _, _)
SelectFrom(doc, matching, i) ==
    IF i > Len(doc) THEN <<>>
    ELSE (IF doc[i] \in matching THEN <<i>> ELSE <<>>)
         \o SelectFrom(doc, matching, i + 1)

(* 'ul.rankings-page__list > li': the item class left out *)
PlayerItemAnyLi(e) == e.inList

(* '*': whatever the page holds *)
CommitItemAny(e) == TRUE

(* 'ul.rankings-page__list > li.rankings-page__list-item'                  *)
(*   ':not(.rankings-page__list-item--header)' *)
PlayerItem(e) == e.item /\ e.inList /\ ~e.header

(* '.rankings-page__list-item' *)
SchoolItem(e) == e.item

(* '.ri-page__list-item' *)
CommitItem(e) == e.item

(* the elements each item selector matches *)
PlayerMatches == {id \in Shapes : PlayerItem(Element[id])}
SchoolMatches == {id \in Shapes : SchoolItem(Element[id])}
CommitMatches == {id \in Shapes : CommitItem(Element[id])}

PlayerItems(doc) == SelectFrom(doc, PlayerMatches, 1)
SchoolItems(doc) == SelectFrom(doc, SchoolMatches, 1)
CommitItems(doc) == SelectFrom(doc, CommitMatches, 1)

---------------------------------------------------------------------------
(* Records *)

Uncommitted == Str(<<"uncommitted">>)

(* the fields of the player object of getPlayerRankings read from e *)
PlayerFields(e) ==
    LET metrics == Split(TextOf(e.metrics), "/")
    IN [name |-> Trim(TextOf(e.nameLink)),
        highSchool |-> Trim(TextOf(e.meta)),
        position |-> Trim(TextOf(e.position)),
        height |-> At(metrics, 0),
        weight |-> At(metrics, 1),
        stars |-> e.yellow,
        rating |-> Trim(Trim(TextOf(FullTexts(e.score)))),
        college |-> OrElse(AttrOf(e.img), Uncommitted)]

(* the school object of getSchoolRankings *)
SchoolOf(e) ==
    [rank |-> Trim(TextOf(e.rankPrimary)),
     school |-> Trim(TextOf(e.nameLink)),
     totalCommits |-> Trim(TextOf(e.totalLink)),
     fiveStars |-> Trim(ReplaceFirst(TextOf(Nth(e.starDivs, 0)), <<"5", ":", " ">>)),
     fourStars |-> Trim(ReplaceFirst(TextOf(Nth(e.starDivs, 1)), <<"4", ":", " ">>)),
     threeStars |-> Trim(ReplaceFirst(TextOf(Nth(e.starDivs, 2)), <<"3", ":", " ">>)),
     averageRating |-> Trim(TextOf(e.avg)),
     points |-> Trim(TextOf(e.number))]

(* the commit object with the star count capped at five *)
CommitOfCapped(e) ==
    LET metrics == Split(TextOf(e.metrics), "/")
    IN [name |-> Trim(TextOf(e.nameLink)),
        highSchool |-> Trim(TextOf(e.meta)),
        position |-> Trim(TextOf(e.position)),
        height |-> At(metrics, 0),
        weight |-> At(metrics, 1),
        stars |-> IF e.yellow > 5 THEN 5 ELSE e.yellow,
        rating |-> Trim(TextOf(OwnTexts(e.score))),
        nationalRank |-> Trim(TextOf(First(e.natrank))),
        stateRank |-> Trim(TextOf(First(e.sttrank))),
        positionRank |-> Trim(TextOf(First(e.posrank)))]

(* the player object of getSchoolCommits *)
CommitOf(e) ==
    LET metrics == Split(TextOf(e.metrics), "/")
    IN [name |-> Trim(TextOf(e.nameLink)),
        highSchool |-> Trim(TextOf(e.meta)),
        position |-> Trim(TextOf(e.position)),
        height |-> At(metrics, 0),
        weight |-> At(metrics, 1),
        stars |-> e.yellow,
        rating |-> Trim(TextOf(OwnTexts(e.score))),
        nationalRank |-> Trim(TextOf(First(e.natrank))),
        stateRank |-> Trim(TextOf(First(e.sttrank))),
        positionRank |-> Trim(TextOf(First(e.posrank)))]

---------------------------------------------------------------------------
(* The list walks *)

(* What the three operations read from each element of Elems.  An element   *)
(* is read the same way wherever it stands in a page, so it is read once.  *)
PlayerRead == [id \in Shapes |-> PlayerFields(Element[id])]
SchoolRead == [id \in Shapes |-> SchoolOf(Element[id])]
CommitRead == [id \in Shapes |-> CommitOf(Element[id])]

(* the player object of getPlayerRankings *)
PlayerOf(id, rank) == [ranking |-> rank] @@ PlayerRead[id]

(* array.unshift(x) *)
PushFront(arr, x) == <<x>> \o arr

(* array.push(x) *)
Push(arr, x) == Append(arr, x)

(* let players = [] *)
NoRecords == [out |-> <<>>, from |-> <<>>]

(* the rank variable with the leading 1 left out *)
FirstRankFromZero(page) == PageSize * (page - 1)

(* rank kept outside the function and never reset: a later call goes on    *)
(* from where an earlier one stopped *)
FirstRankCarried(page) ==
    LET earlier == { c \in DOMAIN calls : calls[c].pc = "fulfilled"
                                          /\ calls[c].op = "getPlayerRankings" }
    IN IF earlier = {} THEN 1 + PageSize * (page - 1)
       ELSE calls[CHOOSE c \in earlier : TRUE].rank

(* rank kept outside the function and set before the await: a call in      *)
(* flight for another page overwrites it *)
FirstRankShared(page) ==
    LET asked(c) == IF calls[c].page.given THEN calls[c].page.v ELSE 1
        others == { c \in DOMAIN calls : /\ calls[c].pc = "awaiting"
                                         /\ calls[c].op = "getPlayerRankings"
                                         /\ asked(c) # page }
    IN IF others = {} THEN 1 + PageSize * (page - 1)
       ELSE 1 + PageSize * (asked(CHOOSE c \in others : TRUE) - 1)

(* a page taken to hold one player less than it does *)
FirstRankOverlapping(page) == 1 + (PageSize - 1) * (page - 1)

(* let rank = 1 + 50 * (page - 1) *)
FirstRank(page) == 1 + PageSize * (page - 1)

(* $(items).each((i, el) => ...) of getPlayerRankings from its k-th item   *)
(* on: one player per item, rank++. at is the state of the loop before     *)
(* that item: at.k the item's number, at.rank the counter, at.out the      *)
(* players array; at.from remembers, for each record, the index of the     *)
(* element it was built from.                                              *)
RECURSIVE EachPlayer(_, _, _)

(* the loop leaving out the players without a name, rank++ only for the    *)
(* players kept *)
EachPlayerNamed(doc, items, at) ==
    IF at.k > Len(items) THEN at
    ELSE IF PlayerRead[doc[items[at.k]]].name = <<>>
    THEN EachPlayer(doc, items, [at EXCEPT !.k = @ + 1])
    ELSE EachPlayer(doc, items,
                    [k |-> at.k + 1,
                     rank |-> at.rank + 1,
                     out |-> Push(at.out, PlayerOf(doc[items[at.k]], at.rank)),
                     from |-> Push(at.from, items[at.k])])

EachPlayer(doc, items, at) ==
    IF at.k > Len(items) THEN at
    ELSE EachPlayer(doc, items,
                    [k |-> at.k + 1,
                     rank |-> at.rank + 1,
                     out |-> Push(at.out, PlayerOf(doc[items[at.k]], at.rank)),
                     from |-> Push(at.from, items[at.k])])

(* $(items).each(...) of getSchoolRankings *)
RECURSIVE EachSchool(_, _, _, _)
EachSchool(doc, items, k, acc) ==
    IF k > Len(items) THEN acc
    ELSE EachSchool(doc, items, k + 1,
                    [out |-> Push(acc.out, SchoolRead[doc[items[k]]]),
                     from |-> Push(acc.from, items[k])])

(* $(items).each(...) of getSchoolCommits *)
RECURSIVE EachCommit(_, _, _, _)
EachCommit(doc, items, k, acc) ==
    IF k > Len(items) THEN acc
    ELSE EachCommit(doc, items, k + 1,
                    [out |-> Push(acc.out, CommitRead[doc[items[k]]]),
                     from |-> Push(acc.from, items[k])])

(* the filter asking for a high school as well *)
IsRecruitComplete(player) ==
    player.name # <<>> /\ player.rating # <<>> /\ player.highSchool # <<>>

(* the filter with || in place of && *)
IsRecruitEither(player) == player.name # <<>> \/ player.rating # <<>>

(* player => player.name !== '' && player.rating !== '' *)
IsRecruit(player) == player.name # <<>> /\ player.rating # <<>>

(* players.filter(IsRecruit) *)
RECURSIVE FilterRecruits(_, _, _)
FilterRecruits(all, k, acc) ==
    IF k > Len(all.out) THEN acc
    ELSE FilterRecruits(all, k + 1,
           IF IsRecruit(all.out[k])
           THEN [out |-> Push(acc.out, all.out[k]),
                 from |-> Push(acc.from, all.from[k])]
           ELSE acc)

---------------------------------------------------------------------------
(* The men's-basketball module: its own copies of the selectors, the       *)
(* record objects and the walks                                            *)

(* the player item selector without its ':not(...--header)' *)
MbbPlayerItemWithHeader(e) == e.item /\ e.inList

(* 'ul.rankings-page__list > li.rankings-page__list-item'                  *)
(*   ':not(.rankings-page__list-item--header)' *)
MbbPlayerItem(e) == e.item /\ e.inList /\ ~e.header

(* '.rankings-page__list-item' *)
MbbSchoolItem(e) == e.item

(* '.ri-page__list-item' *)
MbbCommitItem(e) == e.item

(* the elements each item selector matches *)
MbbPlayerMatches == {id \in Shapes : MbbPlayerItem(Element[id])}
MbbSchoolMatches == {id \in Shapes : MbbSchoolItem(Element[id])}
MbbCommitMatches == {id \in Shapes : MbbCommitItem(Element[id])}

MbbPlayerItems(doc) == SelectFrom(doc, MbbPlayerMatches, 1)
MbbSchoolItems(doc) == SelectFrom(doc, MbbSchoolMatches, 1)
MbbCommitItems(doc) == SelectFrom(doc, MbbCommitMatches, 1)

(* the fields of the player object of mbb.getPlayerRankings read from e *)
MbbPlayerFields(e) ==
    LET metrics == Split(TextOf(e.metrics), "/")
    IN [name |-> Trim(TextOf(e.nameLink)),
        highSchool |-> Trim(TextOf(e.meta)),
        position |-> Trim(TextOf(e.position)),
        height |-> At(metrics, 0),
        weight |-> At(metrics, 1),
        stars |-> e.yellow,
        rating |-> Trim(Trim(TextOf(FullTexts(e.score)))),
        college |-> OrElse(AttrOf(e.img), Uncommitted)]

(* the school object of mbb.getSchoolRankings *)
MbbSchoolOf(e) ==
    [rank |-> Trim(TextOf(e.rankPrimary)),
     school |-> Trim(TextOf(e.nameLink)),
     totalCommits |-> Trim(TextOf(e.totalLink)),
     fiveStars |-> Trim(ReplaceFirst(TextOf(Nth(e.starDivs, 0)), <<"5", ":", " ">>)),
     fourStars |-> Trim(ReplaceFirst(TextOf(Nth(e.starDivs, 1)), <<"4", ":", " ">>)),
     threeStars |-> Trim(ReplaceFirst(TextOf(Nth(e.starDivs, 2)), <<"3", ":", " ">>)),
     averageRating |-> Trim(TextOf(e.avg)),
     points |-> Trim(TextOf(e.number))]

(* the player object of mbb.getSchoolCommits *)
MbbCommitOf(e) ==
    LET metrics == Split(TextOf(e.metrics), "/")
    IN [name |-> Trim(TextOf(e.nameLink)),
        highSchool |-> Trim(TextOf(e.meta)),
        position |-> Trim(TextOf(e.position)),
        height |-> At(metrics, 0),
        weight |-> At(metrics, 1),
        stars |-> e.yellow,
        rating |-> Trim(TextOf(OwnTexts(e.score))),
        nationalRank |-> Trim(TextOf(First(e.natrank))),
        stateRank |-> Trim(TextOf(First(e.sttrank))),
        positionRank |-> Trim(TextOf(First(e.posrank)))]

(* what the three operations read from each element *)
MbbPlayerRead == [id \in Shapes |-> MbbPlayerFields(Element[id])]
MbbSchoolRead == [id \in Shapes |-> MbbSchoolOf(Element[id])]
MbbCommitRead == [id \in Shapes |-> MbbCommitOf(Element[id])]

(* the player object of mbb.getPlayerRankings *)
MbbPlayerOf(id, rank) == [ranking |-> rank] @@ MbbPlayerRead[id]

(* let rank = 1 + 50 * (page - 1) *)
MbbFirstRank(page) == 1 + PageSize * (page - 1)

(* $(items).each(...) of mbb.getPlayerRankings, at the state of the loop *)
RECURSIVE MbbEachPlayer(_, _, _)
MbbEachPlayer(doc, items, at) ==
    IF at.k > Len(items) THEN at
    ELSE MbbEachPlayer(doc, items,
                    [k |-> at.k + 1,
                     rank |-> at.rank + 1,
                     out |-> Push(at.out, MbbPlayerOf(doc[items[at.k]], at.rank)),
                     from |-> Push(at.from, items[at.k])])

(* $(items).each(...) of mbb.getSchoolRankings *)
RECURSIVE MbbEachSchool(_, _, _, _)
MbbEachSchool(doc, items, k, acc) ==
    IF k > Len(items) THEN acc
    ELSE MbbEachSchool(doc, items, k + 1,
                    [out |-> Push(acc.out, MbbSchoolRead[doc[items[k]]]),
                     from |-> Push(acc.from, items[k])])

(* $(items).each(...) of mbb.getSchoolCommits *)
RECURSIVE MbbEachCommit(_, _, _, _)
MbbEachCommit(doc, items, k, acc) ==
    IF k > Len(items) THEN acc
    ELSE MbbEachCommit(doc, items, k + 1,
                    [out |-> Push(acc.out, MbbCommitRead[doc[items[k]]]),
                     from |-> Push(acc.from, items[k])])

(* player => player.name !== '' && player.rating !== '' *)
MbbIsRecruit(player) == player.name # <<>> /\ player.rating # <<>>

(* players.filter(MbbIsRecruit) *)
RECURSIVE MbbFilterRecruits(_, _, _)
MbbFilterRecruits(all, k, acc) ==
    IF k > Len(all.out) THEN acc
    ELSE MbbFilterRecruits(all, k + 1,
           IF MbbIsRecruit(all.out[k])
           THEN [out |-> Push(acc.out, all.out[k]),
                 from |-> Push(acc.from, all.from[k])]
           ELSE acc)

---------------------------------------------------------------------------
(* Calls *)

(* an argument the caller may leave out; a default applies when it is out *)
Omitted == [given |-> FALSE]
Arg(v) == [given |-> TRUE, v |-> v]
Default(a, d) == IF a.given THEN a.v ELSE d

Pages == {Omitted} \cup {Arg(p) : p \in 0..MaxPage}
RankingsTypes == {Omitted, Arg("Composite"), Arg("247"), Arg("Rivals")}
Sports == {"Football", "Basketball"}

(* position = null, state = null *)
Null == [t |-> "null"]

Groups == {Omitted, Arg("HighSchool"), Arg("JuniorCollege"), Arg("PrepSchool")}
Positions == {Omitted, Arg(Str(<<"Q", "B">>))}
States == {Omitted, Arg(Str(<<"T", "X">>))}
FetchErrors == {"ECONNRESET", "Request failed with status code 404"}

NoRequest == [path |-> "-"]

(* a call that has not been made; beside remembers which other calls were *)
(* waiting for their page when this one went on after its await *)
Idle ==
    [pc |-> "idle", op |-> "-", sport |-> "-", page |-> Omitted,
     group |-> Omitted, position |-> Omitted, state |-> Omitted,
     year |-> Omitted, month |-> Omitted, day |-> Omitted,
     rankingsType |-> Omitted, request |-> NoRequest, fetches |-> 0,
     thrown |-> "", data |-> <<>>, parsed |-> FALSE, rank |-> 0,
     result |-> NoRecords, error |-> "", beside |-> {}]

Slots == {"c1"}

Init == calls = [c \in Slots |-> Idle]

(* the request wrapped in try / catch that throws an error of its own *)
RejectionWrapped(err) == "Could not load the page"

(* await axios.get(...) when the request fails: nothing catches it *)
Rejection(err) == err

(* cheerio.load called on the pending request, before the await *)
FetchingParsedEarly(call, path, query) ==
    [call EXCEPT !.pc = "awaiting",
                 !.request = [path |-> path, params |-> query],
                 !.fetches = @ + 1,
                 !.parsed = TRUE]

(* axios.get(baseUrl, ...) is called *)
Fetching(call, path, query) ==
    [call EXCEPT !.pc = "awaiting",
                 !.request = [path |-> path, params |-> query],
                 !.fetches = @ + 1]

(* the choice of baseUrl with the final else taken for the 247 branch *)
CfbRecruitUrlLenient(type) ==
    IF type = "Composite"
    THEN [path |-> "Football/CompositeRecruitRankings", throws |-> ""]
    ELSE [path |-> "Football/recruitrankings", throws |-> ""]

(* the if / else if / else that sets baseUrl in cfb.getPlayerRankings: the *)
(* path chosen, or the error thrown *)
CfbRecruitUrl(type) ==
    IF type = "Composite"
    THEN [path |-> "Football/CompositeRecruitRankings", throws |-> ""]
    ELSE IF type = "247"
    THEN [path |-> "Football/recruitrankings", throws |-> ""]
    ELSE [path |-> "-", throws |-> "Invalid rankings type"]

(* the params object with group left without its default *)
PlayerRankingsParamsNoDefault(page, group, position, state) ==
    [InstitutionGroup |-> Default(group, ""),
     Page |-> Default(page, 1),
     Position |-> Default(position, Null),
     State |-> Default(state, Null)]

(* const params = { InstitutionGroup: group, Page: page, Position:         *)
(* position, State: state } with the defaults of the signature *)
PlayerRankingsParams(page, group, position, state) ==
    [InstitutionGroup |-> Default(group, "HighSchool"),
     Page |-> Default(page, 1),
     Position |-> Default(position, Null),
     State |-> Default(state, Null)]

(* cfb.getPlayerRankings up to its await *)
CfbGetPlayerRankings(c, page, group, position, state, rankingsType) ==
    /\ calls[c].pc = "idle"
    /\ LET call == [calls[c] EXCEPT !.op = "getPlayerRankings",
                                    !.sport = "Football",
                                    !.page = page,
                                    !.group = group,
                                    !.position = position,
                                    !.state = state,
                                    !.rankingsType = rankingsType]
           baseUrl == CfbRecruitUrl(Default(rankingsType, "Composite"))
       IN calls' = [calls EXCEPT ![c] =
              IF baseUrl.throws # ""
              THEN [call EXCEPT !.pc = "rejected", !.error = baseUrl.throws]
              ELSE Fetching(call, baseUrl.path,
                            PlayerRankingsParams(page, group, position, state))]

(* mbb.getPlayerRankings up to its await *)
MbbGetPlayerRankings(c, page, group, position, state) ==
    /\ calls[c].pc = "idle"
    /\ LET call == [calls[c] EXCEPT !.op = "getPlayerRankings",
                                    !.sport = "Basketball",
                                    !.page = page,
                                    !.group = group,
                                    !.position = position,
                                    !.state = state]
       IN calls' = [calls EXCEPT ![c] =
              Fetching(call, "Basketball/CompositeRecruitRankings",
                       PlayerRankingsParams(page, group, position, state))]

(* getSchoolRankings (cfb and mbb) up to its await *)
GetSchoolRankings(c, sport, page) ==
    /\ calls[c].pc = "idle"
    /\ LET call == [calls[c] EXCEPT !.op = "getSchoolRankings",
                                    !.sport = sport,
                                    !.page = page]
       IN calls' = [calls EXCEPT ![c] =
              Fetching(call, sport \o "/CompositeTeamRankings",
                       [Page |-> Default(page, 1)])]

(* getSchoolCommits (cfb and mbb) up to its await *)
GetSchoolCommits(c, sport) ==
    /\ calls[c].pc = "idle"
    /\ LET call == [calls[c] EXCEPT !.op = "getSchoolCommits",
                                    !.sport = sport]
       IN calls' = [calls EXCEPT ![c] =
              Fetching(call, sport \o "/Commits", [none |-> TRUE])]

(* the calls other than c that are waiting for their page *)
InFlight(c) == { d \in DOMAIN calls \ {c} : calls[d].pc = "awaiting" }

(* the awaited request fails: the call rejects *)
FetchFails(c, err) ==
    /\ calls[c].pc = "awaiting"
    /\ calls' = [calls EXCEPT ![c].pc = "rejected",
                              ![c].thrown = err,
                              ![c].error = Rejection(err)]

(* getPlayerRankings after its await: cheerio.load, the walk, return, in *)
(* the module of the call's sport *)
PlayerRankingsResumes(c, pages) ==
    /\ calls[c].pc = "awaiting"
    /\ calls[c].op = "getPlayerRankings"
    /\ \E doc \in pages :
       LET walk ==
             IF calls[c].sport = "Basketball"
             THEN MbbEachPlayer(doc, MbbPlayerItems(doc),
                                [k |-> 1,
                                 rank |-> MbbFirstRank(Default(calls[c].page, 1)),
                                 out |-> NoRecords.out,
                                 from |-> NoRecords.from])
             ELSE EachPlayer(doc, PlayerItems(doc),
                             [k |-> 1,
                              rank |-> FirstRank(Default(calls[c].page, 1)),
                              out |-> NoRecords.out,
                              from |-> NoRecords.from])
       IN calls' = [calls EXCEPT ![c].pc = "fulfilled",
                                 ![c].data = doc,
                                 ![c].parsed = TRUE,
                                 ![c].beside = InFlight(c),
                                 ![c].rank = walk.rank,
                                 ![c].result = [out |-> walk.out,
                                                from |-> walk.from]]

(* getSchoolRankings after its await *)
SchoolRankingsResumes(c, pages) ==
    /\ calls[c].pc = "awaiting"
    /\ calls[c].op = "getSchoolRankings"
    /\ \E doc \in pages :
       calls' = [calls EXCEPT ![c].pc = "fulfilled",
                              ![c].data = doc,
                              ![c].parsed = TRUE,
                              ![c].beside = InFlight(c),
                              ![c].result =
                                  IF calls[c].sport = "Basketball"
                                  THEN MbbEachSchool(doc, MbbSchoolItems(doc),
                                                     1, NoRecords)
                                  ELSE EachSchool(doc, SchoolItems(doc),
                                                  1, NoRecords)]

(* getSchoolCommits after its await *)
SchoolCommitsResumes(c, pages) ==
    /\ calls[c].pc = "awaiting"
    /\ calls[c].op = "getSchoolCommits"
    /\ \E doc \in pages :
       LET result ==
             IF calls[c].sport = "Basketball"
             THEN MbbFilterRecruits(
                      MbbEachCommit(doc, MbbCommitItems(doc), 1, NoRecords),
                      1, NoRecords)
             ELSE FilterRecruits(
                      EachCommit(doc, CommitItems(doc), 1, NoRecords),
                      1, NoRecords)
       IN calls' = [calls EXCEPT ![c].pc = "fulfilled",
                                 ![c].data = doc,
                                 ![c].parsed = TRUE,
                                 ![c].beside = InFlight(c),
                                 ![c].result = result]

---------------------------------------------------------------------------
(* The schedule and scoreboard requests *)

(* JavaScript numbers, NaN, and what a template literal makes of a value *)
Num(n) == [t |-> "number", v |-> n]
NaN == [t |-> "NaN"]

DigitChars == <<"0", "1", "2", "3", "4", "5", "6", "7", "8", "9">>

RECURSIVE Digits(_)
Digits(n) ==
    IF n < 10 THEN <<DigitChars[n + 1]>>
    ELSE Digits(n \div 10) \o <<DigitChars[(n % 10) + 1]>>

(* `${v}` *)
Text(v) ==
    CASE v.t = "number" -> Digits(v.v)
      [] v.t = "NaN" -> <<"N", "a", "N">>
      [] v.t = "null" -> <<"n", "u", "l", "l">>
      [] v.t = "undefined" -> <<"u", "n", "d", "e", "f", "i", "n", "e", "d">>

(* parseInt(v) for a whole number, null or undefined *)
ParseInt(v) == IF v.t = "number" THEN v ELSE NaN

(* v <= 9: false for NaN *)
AtMostNine(v) == v.t = "number" /\ v.v <= 9

(* parseInt(v) <= 9 ? "0" + parseInt(v) : parseInt(v), in a template *)
Padded(v) ==
    IF AtMostNine(ParseInt(v)) THEN <<"0">> \o Text(ParseInt(v))
    ELSE Text(ParseInt(v))

(* `${year}${...month...}${...day...}` *)
DatesOf(year, month, day) == Text(year) \o Padded(month) \o Padded(day)

(* a number, null or undefined in a condition *)
Truthy(v) == v.t = "number" /\ v.v # 0

(* if (year && month && day) { params.dates = ... } *)
WithDates(params, year, month, day) ==
    IF Truthy(year) /\ Truthy(month) /\ Truthy(day)
    THEN [dates |-> DatesOf(year, month, day)] @@ params
    ELSE params

(* the dates a caller passes: a year, a month of the year, a day of a month *)
Years == {Omitted, Arg(Num(2021))}
Months == {Omitted} \cup {Arg(Num(m)) : m \in 1..12}
Days == {Omitted} \cup {Arg(Num(d)) : d \in 1..31}

(* a schedule or scoreboard call up to its await; url is the query string *)
(* written into baseUrl *)
Asking(call, op, sport, year, month, day, path, url, params) ==
    [call EXCEPT !.op = op, !.sport = sport,
                 !.year = year, !.month = month, !.day = day,
                 !.pc = "awaiting",
                 !.request = [path |-> path, url |-> url, params |-> params],
                 !.fetches = @ + 1]

(* the query string of a baseUrl without one *)
NoQuery == [none |-> TRUE]

(* cfb.getSchedule up to its await *)
CfbGetSchedule(c, year, month, day) ==
    /\ calls[c].pc = "idle"
    /\ calls' = [calls EXCEPT ![c] =
           Asking(calls[c], "getSchedule", "Football", year, month, day,
                  "college-football/schedule", NoQuery,
                  WithDates([groups |-> 80, seasontype |-> 2, xhr |-> 1,
                             render |-> FALSE, device |-> "desktop",
                             userab |-> 18],
                            Default(year, Undefined),
                            Default(month, Undefined),
                            Default(day, Undefined)))]

(* cfb.getScoreboard up to its await *)
CfbGetScoreboard(c, year, month, day) ==
    /\ calls[c].pc = "idle"
    /\ calls' = [calls EXCEPT ![c] =
           Asking(calls[c], "getScoreboard", "Football", year, month, day,
                  "football/college-football/scoreboard", NoQuery,
                  WithDates([groups |-> 80, seasontype |-> 2, limit |-> 300],
                            Default(year, Undefined),
                            Default(month, Undefined),
                            Default(day, Undefined)))]

(* mbb.getSchedule up to its await: year, month and day default to null    *)
(* and the dates are written into baseUrl *)
MbbGetSchedule(c, year, month, day) ==
    /\ calls[c].pc = "idle"
    /\ calls' = [calls EXCEPT ![c] =
           Asking(calls[c], "getSchedule", "Basketball", year, month, day,
                  "mens-college-basketball/schedule",
                  [dates |-> DatesOf(Default(year, Null),
                                     Default(month, Null),
                                     Default(day, Null))],
                  [groups |-> 50, seasontype |-> 2, xhr |-> 1])]

(* mbb.getScoreboard up to its await *)
MbbGetScoreboard(c, year, month, day) ==
    /\ calls[c].pc = "idle"
    /\ calls' = [calls EXCEPT ![c] =
           Asking(calls[c], "getScoreboard", "Basketball", year, month, day,
                  "basketball/mens-college-basketball/scoreboard", NoQuery,
                  WithDates([groups |-> 50, seasontype |-> 2, limit |-> 1000],
                            Default(year, Undefined),
                            Default(month, Undefined),
                            Default(day, Undefined)))]

(* res.data of the JSON endpoints: with and without content *)
Bodies == { [content |-> [schedule |-> <<"game">>]], [code |-> 404] }

(* getSchedule after its await: return res.data.content.schedule *)
ScheduleResumes(c) ==
    /\ calls[c].pc = "awaiting"
    /\ calls[c].op = "getSchedule"
    /\ \E body \in Bodies :
       calls' = [calls EXCEPT ![c] =
           IF "content" \in DOMAIN body
           THEN [calls[c] EXCEPT !.pc = "fulfilled",
                                 !.beside = InFlight(c),
                                 !.result = [out |-> body.content.schedule,
                                             from |-> <<>>]]
           ELSE [calls[c] EXCEPT !.pc = "rejected",
                                 !.beside = InFlight(c),
                                 !.error = "TypeError"]]

(* getScoreboard after its await: return res.data *)
ScoreboardResumes(c) ==
    /\ calls[c].pc = "awaiting"
    /\ calls[c].op = "getScoreboard"
    /\ \E body \in Bodies :
       calls' = [calls EXCEPT ![c].pc = "fulfilled",
                              ![c].beside = InFlight(c),
                              ![c].result = [out |-> body, from |-> <<>>]]

(* one call, any page *)
Next ==
    \E c \in Slots :
        \/ \E page \in Pages, rankingsType \in RankingsTypes :
               CfbGetPlayerRankings(c, page, Omitted, Omitted, Omitted,
                                    rankingsType)
        \/ \E page \in Pages :
               MbbGetPlayerRankings(c, page, Omitted, Omitted, Omitted)
        \/ \E sport \in Sports, page \in Pages : GetSchoolRankings(c, sport, page)
        \/ \E sport \in Sports : GetSchoolCommits(c, sport)
        \/ \E err \in FetchErrors : FetchFails(c, err)
        \/ PlayerRankingsResumes(c, Docs)
        \/ SchoolRankingsResumes(c, Docs)
        \/ SchoolCommitsResumes(c, Docs)

Spec == Init /\ [][Next]_vars

(* two calls, made and completed in any order *)
PairSlots == {"c1", "c2"}

InitPair == calls = [c \in PairSlots |-> Idle]

NextPair ==
    \E c \in PairSlots :
        \/ \E page \in Pages, rankingsType \in RankingsTypes :
               CfbGetPlayerRankings(c, page, Omitted, Omitted, Omitted,
                                    rankingsType)
        \/ \E page \in Pages :
               MbbGetPlayerRankings(c, page, Omitted, Omitted, Omitted)
        \/ \E sport \in Sports, page \in Pages : GetSchoolRankings(c, sport, page)
        \/ \E sport \in Sports : GetSchoolCommits(c, sport)
        \/ \E err \in FetchErrors : FetchFails(c, err)
        \/ PlayerRankingsResumes(c, FewDocs)
        \/ SchoolRankingsResumes(c, FewDocs)
        \/ SchoolCommitsResumes(c, FewDocs)

SpecPair == InitPair /\ [][NextPair]_vars

(* a listing read page by page: getPlayerRankings for two of its pages *)
ListingPages == {Arg(p) : p \in 1..(MaxPage + 1)}

NextListing ==
    \E c \in PairSlots :
        \/ \E page \in ListingPages : CfbGetPlayerRankings(c, page, Omitted, Omitted, Omitted, Omitted)
        \/ \E err \in FetchErrors : FetchFails(c, err)
        \/ PlayerRankingsResumes(c, LongDocs)

SpecListing == InitPair /\ [][NextListing]_vars

(* one getPlayerRankings call with any of its parameters given or omitted *)
NextFilters ==
    \E c \in Slots :
        \/ \E page \in Pages, group \in Groups, position \in Positions,
              state \in States, rankingsType \in RankingsTypes :
               CfbGetPlayerRankings(c, page, group, position, state,
                                    rankingsType)
        \/ \E page \in Pages, group \in Groups, position \in Positions,
              state \in States :
               MbbGetPlayerRankings(c, page, group, position, state)
        \/ \E err \in FetchErrors : FetchFails(c, err)
        \/ PlayerRankingsResumes(c, FewDocs)

SpecFilters == Init /\ [][NextFilters]_vars

(* one call of any operation on a page with an incomplete item *)
NextSparse ==
    \E c \in Slots :
        \/ CfbGetPlayerRankings(c, Omitted, Omitted, Omitted, Omitted, Omitted)
        \/ MbbGetPlayerRankings(c, Omitted, Omitted, Omitted, Omitted)
        \/ \E sport \in Sports : GetSchoolRankings(c, sport, Omitted)
        \/ \E sport \in Sports : GetSchoolCommits(c, sport)
        \/ \E err \in FetchErrors : FetchFails(c, err)
        \/ PlayerRankingsResumes(c, PlayerSparseDocs)
        \/ SchoolRankingsResumes(c, SchoolSparseDocs)
        \/ SchoolCommitsResumes(c, CommitSparseDocs)

SpecSparse == Init /\ [][NextSparse]_vars

(* one schedule or scoreboard call for any date, whole or in part *)
NextDates ==
    \E c \in Slots :
        \/ \E year \in Years, month \in Months, day \in Days :
               CfbGetSchedule(c, year, month, day)
        \/ \E year \in Years, month \in Months, day \in Days :
               CfbGetScoreboard(c, year, month, day)
        \/ \E year \in Years, month \in Months, day \in Days :
               MbbGetSchedule(c, year, month, day)
        \/ \E year \in Years, month \in Months, day \in Days :
               MbbGetScoreboard(c, year, month, day)
        \/ \E err \in FetchErrors : FetchFails(c, err)
        \/ ScheduleResumes(c)
        \/ ScoreboardResumes(c)

SpecDates == Init /\ [][NextDates]_vars

---------------------------------------------------------------------------
(* Properties *)

Fulfilled(c, op) == calls[c].pc = "fulfilled" /\ calls[c].op = op

(* the element a returned record was built from *)
Source(c, k) == Element[calls[c].data[calls[c].result.from[k]]]

(* the positions of a page that an operation's item selector matches, *)
(* read from the classes of the elements *)
Listed(op, doc) ==
    { i \in 1..Len(doc) :
        IF op = "getPlayerRankings"
        THEN Element[doc[i]].item /\ Element[doc[i]].inList
             /\ ~Element[doc[i]].header
        ELSE Element[doc[i]].item }

(* C1: in getPlayerRankings with page p >= 1 the k-th returned record,    *)
(* k counted from zero, has ranking 1 + 50 * (p - 1) + k.                  *)
C1_RankingFromPage ==
    \A c \in DOMAIN calls :
        LET p == Default(calls[c].page, 1)
            out == calls[c].result.out
        IN (Fulfilled(c, "getPlayerRankings") /\ p >= 1) =>
               \A k \in 1..Len(out) : out[k].ranking = 1 + 50 * (p - 1) + (k - 1)

(* page 2 with three candidates: rankings 51, 52, 53 *)
C1_Witness ==
    \E c \in DOMAIN calls :
        /\ Fulfilled(c, "getPlayerRankings")
        /\ calls[c].page = Arg(2)
        /\ Len(calls[c].result.out) = 3
        /\ calls[c].result.out[1].ranking = 51
        /\ calls[c].result.out[3].ranking = 53

(* C2: no record returned by getSchoolCommits has an empty name or an     *)
(* empty rating.                                                           *)
C2_NoEmptyCommit ==
    \A c \in DOMAIN calls :
        Fulfilled(c, "getSchoolCommits") =>
            \A k \in 1..Len(calls[c].result.out) :
                /\ calls[c].result.out[k].name # <<>>
                /\ calls[c].result.out[k].rating # <<>>

(* a commits page with a blank-named candidate and one whose rating is    *)
(* empty, of which a third candidate is returned *)
C2_Witness ==
    \E c \in DOMAIN calls :
        /\ Fulfilled(c, "getSchoolCommits")
        /\ \E i, j \in 1..Len(calls[c].data) :
               /\ calls[c].data[i] = "blank-name"
               /\ calls[c].data[j] = "nested-score"
        /\ Len(calls[c].result.out) = 1

(* C3 as claimed: the stars of every record of getPlayerRankings and of   *)
(* getSchoolCommits are in 0..5, however many '.yellow' elements the      *)
(* candidate holds.                                                        *)
C3_StarsWithinFive ==
    \A c \in DOMAIN calls :
        (Fulfilled(c, "getPlayerRankings") \/ Fulfilled(c, "getSchoolCommits")) =>
            \A k \in 1..Len(calls[c].result.out) :
                calls[c].result.out[k].stars \in 0..5

(* C3 amended: the stars of every record of getPlayerRankings and of      *)
(* getSchoolCommits are the number of '.yellow' elements of the candidate *)
(* it was built from: a natural number, in 0..5 exactly when the          *)
(* candidate holds at most five of them.                                   *)
C3_StarsAreYellowCount ==
    \A c \in DOMAIN calls :
        (Fulfilled(c, "getPlayerRankings") \/ Fulfilled(c, "getSchoolCommits")) =>
            \A k \in 1..Len(calls[c].result.out) :
                /\ calls[c].result.out[k].stars \in Nat
                /\ calls[c].result.out[k].stars = Source(c, k).yellow

(* a commit record built from a candidate with more than five '.yellow'  *)
(* elements *)
C3_Witness ==
    \E c \in DOMAIN calls :
        /\ Fulfilled(c, "getSchoolCommits")
        /\ \E k \in 1..Len(calls[c].result.out) :
               /\ Source(c, k).yellow > 5
               /\ calls[c].result.out[k].stars > 5

(* C4 as claimed: in getPlayerRankings no candidate is dropped; a          *)
(* candidate whose committed-school image has no title attribute gets      *)
(* college "uncommitted", and one whose title attribute is present gets    *)
(* the value of that attribute.                                            *)
C4_TitleIsCollege ==
    \A c \in DOMAIN calls :
        Fulfilled(c, "getPlayerRankings") =>
            /\ Len(calls[c].result.out) = Cardinality(Listed(calls[c].op, calls[c].data))
            /\ \A k \in 1..Len(calls[c].result.out) :
                   LET img == Source(c, k).img
                   IN img # <<>> =>
                          calls[c].result.out[k].college =
                              IF Head(img) = Undefined THEN Uncommitted ELSE Head(img)

(* C4 amended: in getPlayerRankings no candidate is dropped; a candidate   *)
(* whose first committed-school image has no title attribute, or an empty  *)
(* one, or that has no such image, gets college "uncommitted", and one     *)
(* whose title attribute is present and not empty gets its value.          *)
C4_TitleOrUncommitted ==
    \A c \in DOMAIN calls :
        Fulfilled(c, "getPlayerRankings") =>
            /\ Len(calls[c].result.out) = Cardinality(Listed(calls[c].op, calls[c].data))
            /\ \A k \in 1..Len(calls[c].result.out) :
                   LET img == Source(c, k).img
                   IN calls[c].result.out[k].college =
                          IF img = <<>> \/ Head(img) = Undefined \/ Head(img) = Str(<<>>)
                          THEN Uncommitted
                          ELSE Head(img)

(* three candidates, one of them with an image without title: three        *)
(* records, that one uncommitted, another with the title as college *)
C4_Witness ==
    \E c \in DOMAIN calls :
        /\ Fulfilled(c, "getPlayerRankings")
        /\ Len(calls[c].result.out) = 3
        /\ \E j, k \in 1..3 :
               /\ Source(c, j).img = << Undefined >>
               /\ calls[c].result.out[j].college = Uncommitted
               /\ Source(c, k).img = << Str(<<"U">>) >>
               /\ calls[c].result.out[k].college = Str(<<"U">>)

(* C5: when the fetch succeeds the call does not end in an error, and     *)
(* when the page has no element that the item selector matches the call   *)
(* returns the empty sequence.                                             *)
C5_NoItemsNoRecords ==
    \A c \in DOMAIN calls :
        /\ calls[c].parsed => calls[c].pc = "fulfilled" /\ calls[c].error = ""
        /\ (calls[c].pc = "fulfilled" /\ Listed(calls[c].op, calls[c].data) = {}) =>
               calls[c].result.out = <<>>

(* a page of elements none of which is a candidate of getPlayerRankings *)
C5_Witness ==
    \E c \in DOMAIN calls :
        /\ Fulfilled(c, "getPlayerRankings")
        /\ Len(calls[c].data) >= 2
        /\ Listed(calls[c].op, calls[c].data) = {}
        /\ calls[c].result.out = <<>>

(* C6: an operation returns at most as many records as its item selector  *)
(* matches elements.                                                       *)
C6_AtMostOnePerItem ==
    \A c \in DOMAIN calls :
        calls[c].pc = "fulfilled" =>
            Len(calls[c].result.out) <= Cardinality(Listed(calls[c].op, calls[c].data))

(* getSchoolCommits returning fewer records than candidates, not none *)
C6_Witness ==
    \E c \in DOMAIN calls :
        /\ Fulfilled(c, "getSchoolCommits")
        /\ Len(calls[c].result.out) > 0
        /\ Len(calls[c].result.out) < Cardinality(Listed(calls[c].op, calls[c].data))

(* the record an operation builds from element id, with the given ranking *)
RecordOf(op, id, ranking) ==
    CASE op = "getPlayerRankings" -> PlayerOf(id, ranking)
      [] op = "getSchoolRankings" -> SchoolRead[id]
      [] op = "getSchoolCommits" -> CommitRead[id]

(* C7: the returned records are in document order, each the record of a   *)
(* candidate: a record built from an earlier element stands earlier.       *)
C7_DocumentOrder ==
    \A c \in DOMAIN calls :
        calls[c].pc = "fulfilled" =>
            LET out == calls[c].result.out
                from == calls[c].result.from
            IN /\ Len(from) = Len(out)
               /\ \A j, k \in 1..Len(out) : j < k => from[j] < from[k]
               /\ \A k \in 1..Len(out) :
                      /\ from[k] \in Listed(calls[c].op, calls[c].data)
                      /\ out[k] = RecordOf(calls[c].op, calls[c].data[from[k]],
                                           IF calls[c].op = "getPlayerRankings"
                                           THEN out[k].ranking ELSE 0)

(* getSchoolCommits keeping the first and the third candidate *)
C7_Witness ==
    \E c \in DOMAIN calls :
        /\ Fulfilled(c, "getSchoolCommits")
        /\ calls[c].result.from = <<1, 3>>
        /\ Cardinality(Listed(calls[c].op, calls[c].data)) = 3

(* C8: two calls of the same operation with the same arguments that        *)
(* receive the same page return the same records, whatever was called      *)
(* before; the first ranking of getPlayerRankings is 1 + 50 * (page - 1)   *)
(* in every call.                                                          *)
C8_SameCallSameRecords ==
    /\ \A c, d \in DOMAIN calls :
           ( /\ calls[c].pc = "fulfilled" /\ calls[d].pc = "fulfilled"
             /\ calls[c].op = calls[d].op
             /\ calls[c].sport = calls[d].sport
             /\ calls[c].page = calls[d].page
             /\ calls[c].rankingsType = calls[d].rankingsType
             /\ calls[c].data = calls[d].data )
           => calls[c].result.out = calls[d].result.out
    /\ \A c \in DOMAIN calls :
           (Fulfilled(c, "getPlayerRankings") /\ calls[c].result.out # <<>>) =>
               calls[c].result.out[1].ranking = 1 + 50 * (Default(calls[c].page, 1) - 1)

(* getPlayerRankings called twice for page 2, both calls given the same    *)
(* page of two candidates *)
C8_Witness ==
    \E c, d \in DOMAIN calls :
        /\ c # d
        /\ Fulfilled(c, "getPlayerRankings") /\ Fulfilled(d, "getPlayerRankings")
        /\ calls[c].sport = calls[d].sport
        /\ calls[c].page = Arg(2) /\ calls[d].page = Arg(2)
        /\ calls[c].rankingsType = calls[d].rankingsType
        /\ calls[c].data = calls[d].data
        /\ Len(calls[c].result.out) = 2
        /\ calls[d].result.out[2].ranking = 52

(* C9: football getPlayerRankings with a rankingsType other than          *)
(* "Composite" and "247" fails with an error and issues no request; with   *)
(* "Composite" or "247" the request goes to the one URL of that type.      *)
C9_InvalidTypeNoFetch ==
    \A c \in DOMAIN calls :
        (calls[c].op = "getPlayerRankings" /\ calls[c].sport = "Football") =>
            LET type == Default(calls[c].rankingsType, "Composite")
            IN IF type \notin {"Composite", "247"}
               THEN /\ calls[c].pc = "rejected"
                    /\ calls[c].error = "Invalid rankings type"
                    /\ calls[c].fetches = 0
                    /\ calls[c].request = NoRequest
               ELSE /\ calls[c].fetches = 1
                    /\ calls[c].request.path =
                           IF type = "Composite"
                           THEN "Football/CompositeRecruitRankings"
                           ELSE "Football/recruitrankings"

(* a call with rankingsType "Rivals", rejected without a request *)
C9_Witness ==
    \E c \in DOMAIN calls :
        /\ calls[c].op = "getPlayerRankings"
        /\ calls[c].rankingsType = Arg("Rivals")
        /\ calls[c].pc = "rejected"
        /\ calls[c].fetches = 0

(* C10: a call issues at most one fetch; when that fetch fails the call   *)
(* ends with the error of the fetch, with no page parsed and no record.    *)
C10_FetchFailureEndsCall ==
    \A c \in DOMAIN calls :
        /\ calls[c].fetches <= 1
        /\ calls[c].thrown # "" =>
               /\ calls[c].pc = "rejected"
               /\ calls[c].error = calls[c].thrown
               /\ calls[c].fetches = 1
               /\ ~calls[c].parsed
               /\ calls[c].result = NoRecords

(* getSchoolCommits whose fetch failed with ECONNRESET *)
C10_Witness ==
    \E c \in DOMAIN calls :
        /\ calls[c].op = "getSchoolCommits"
        /\ calls[c].thrown = "ECONNRESET"
        /\ calls[c].pc = "rejected"

(* a finite set of numbers as an ascending sequence *)
RECURSIVE Ascending(_)
Ascending(S) ==
    IF S = {} THEN <<>>
    ELSE LET least == CHOOSE x \in S : \A y \in S : x <= y
         IN <<least>> \o Ascending(S \ {least})

NamedAndRated(r) == r.name # <<>> /\ r.rating # <<>>

(* what an operation returns for a page when nothing else is going on: one *)
(* record per candidate in document order, the k-th player ranked          *)
(* 1 + 50 * (page - 1) + k, commits without name or rating left out *)
Alone(op, page, doc) ==
    LET items == Ascending(Listed(op, doc))
        all == [k \in 1..Len(items) |->
                   RecordOf(op, doc[items[k]], 1 + 50 * (page - 1) + (k - 1))]
    IN IF op = "getSchoolCommits" THEN SelectSeq(all, NamedAndRated) ELSE all

(* C11: with calls in flight together and their fetches completing in any *)
(* order, every call returns what it returns when run alone; the rankings  *)
(* of a getPlayerRankings call do not depend on the other call.            *)
C11_NoInterference ==
    \A c \in DOMAIN calls :
        calls[c].pc = "fulfilled" =>
            calls[c].result.out =
                Alone(calls[c].op, Default(calls[c].page, 1), calls[c].data)

(* two getPlayerRankings calls for different pages, both waiting when the  *)
(* first page arrived, the call for page 1 completed last *)
C11_Witness ==
    \E c, d \in DOMAIN calls :
        /\ c # d
        /\ Fulfilled(c, "getPlayerRankings") /\ Fulfilled(d, "getPlayerRankings")
        /\ calls[c].page = Arg(2) /\ calls[d].page = Arg(1)
        /\ calls[c].beside = {d}
        /\ Len(calls[c].result.out) = 2 /\ Len(calls[d].result.out) = 2
        /\ calls[c].result.out[1].ranking = 51
        /\ calls[d].result.out[1].ranking = 1

(* the rankings a fulfilled call returned, in order *)
Rankings(c) == [k \in 1..Len(calls[c].result.out) |-> calls[c].result.out[k].ranking]

(* a fulfilled getPlayerRankings call for page p whose page held exactly   *)
(* PageSize candidates *)
WholePage(c, p) ==
    /\ Fulfilled(c, "getPlayerRankings")
    /\ Default(calls[c].page, 1) = p
    /\ Cardinality(Listed("getPlayerRankings", calls[c].data)) = PageSize

(* C12: rankings are continuous across pages: when page p holds exactly 50 *)
(* candidates the first ranking of page p + 1 is the last ranking of page  *)
(* p plus one, and the rankings of the whole pages 1..P are exactly        *)
(* 1..50 * P, none twice and none missing.                                 *)
C12_ContinuousAcrossPages ==
    /\ \A c, d \in DOMAIN calls :
           \A p \in 1..MaxPage :
               /\ WholePage(c, p)
               /\ Fulfilled(d, "getPlayerRankings")
               /\ Default(calls[d].page, 1) = p + 1
               /\ calls[d].result.out # <<>>
               => Rankings(d)[1] = Rankings(c)[Len(Rankings(c))] + 1
    /\ \A c \in DOMAIN calls :
           WholePage(c, 1) => Rankings(c) = [k \in 1..PageSize |-> k]
    /\ \A c, d \in DOMAIN calls :
           WholePage(c, 1) /\ WholePage(d, 2)
               => Rankings(c) \o Rankings(d) = [k \in 1..(PageSize * 2) |-> k]

(* pages 1 and 2 read, each holding exactly PageSize players behind a      *)
(* header row: the rankings end at 50 and go on at 51 *)
C12_Witness ==
    \E c, d \in DOMAIN calls :
        /\ WholePage(c, 1) /\ WholePage(d, 2)
        /\ calls[c].data[1] = "header" /\ calls[d].data[1] = "header"
        /\ Rankings(c)[PageSize] = PageSize
        /\ Rankings(d)[1] = PageSize + 1
        /\ Rankings(d)[PageSize] = PageSize * 2

(* C13: every record returned by getPlayerRankings has a ranking that is   *)
(* an integer >= 1, for every page argument the call accepts, the omitted  *)
(* page included.                                                          *)
C13_RankingAtLeastOne ==
    \A c \in DOMAIN calls :
        Fulfilled(c, "getPlayerRankings") =>
            \A k \in 1..Len(calls[c].result.out) :
                /\ calls[c].result.out[k].ranking \in Int
                /\ calls[c].result.out[k].ranking >= 1

(* C14: the defaults of getPlayerRankings: with page omitted the request   *)
(* carries Page = 1 and the records are those of page 1, the first ranked  *)
(* 1; with group omitted the request carries InstitutionGroup =            *)
(* "HighSchool"; position and state, given or omitted, leave the records   *)
(* extracted from a document as they are.                                  *)
C14_Defaults ==
    \A c \in DOMAIN calls :
        calls[c].op = "getPlayerRankings"
        /\ calls[c].pc \in {"awaiting", "fulfilled"} =>
            /\ ~calls[c].page.given => calls[c].request.params.Page = 1
            /\ ~calls[c].group.given =>
                   calls[c].request.params.InstitutionGroup = "HighSchool"
            /\ ~calls[c].position.given =>
                   calls[c].request.params.Position = Null
            /\ ~calls[c].state.given => calls[c].request.params.State = Null
            /\ calls[c].pc = "fulfilled" =>
                   /\ ~calls[c].page.given =>
                          /\ calls[c].result.out =
                                 Alone("getPlayerRankings", 1, calls[c].data)
                          /\ calls[c].result.out # <<>> =>
                                 calls[c].result.out[1].ranking = 1
                   /\ calls[c].result.out =
                          Alone("getPlayerRankings",
                                Default(calls[c].page, 1), calls[c].data)

(* a call with every parameter omitted that returned two players *)
C14_Witness ==
    \E c \in DOMAIN calls :
        /\ Fulfilled(c, "getPlayerRankings")
        /\ ~calls[c].page.given /\ ~calls[c].group.given
        /\ ~calls[c].position.given /\ ~calls[c].state.given
        /\ calls[c].request.params.InstitutionGroup = "HighSchool"
        /\ Len(calls[c].result.out) = 2
        /\ calls[c].result.out[1].ranking = 1

(* the candidates of a commits page whose name and rating come out non-empty *)
WellFormed(doc) ==
    { i \in Listed("getSchoolCommits", doc) :
        CommitRead[doc[i]].name # <<>> /\ CommitRead[doc[i]].rating # <<>> }

(* C15: getSchoolCommits drops exactly the malformed candidates: it       *)
(* returns one record for every candidate whose name and rating are both   *)
(* non-empty, whatever else the candidate lacks, and no other record.      *)
C15_DropsExactlyMalformed ==
    \A c \in DOMAIN calls :
        Fulfilled(c, "getSchoolCommits") =>
            /\ calls[c].result.from = Ascending(WellFormed(calls[c].data))
            /\ \A k \in 1..Len(calls[c].result.out) :
                   calls[c].result.out[k] =
                       CommitRead[calls[c].data[calls[c].result.from[k]]]

(* an item with nothing but a name and a rating *)
NameAndRatingOnly == Lacking(CommitParts \ {"nameLink", "score"})

(* two candidates, the first without a name, the second with nothing but   *)
(* a name and a rating: one record, its other fields empty *)
C15_Witness ==
    \E c \in DOMAIN calls :
        /\ Fulfilled(c, "getSchoolCommits")
        /\ calls[c].data = <<"bare", NameAndRatingOnly>>
        /\ Len(calls[c].result.out) = 1
        /\ calls[c].result.from = <<2>>
        /\ calls[c].result.out[1].name = <<"A">>
        /\ calls[c].result.out[1].highSchool = <<>>
        /\ calls[c].result.out[1].nationalRank = <<>>

(* C16: in the records of getPlayerRankings and getSchoolCommits height    *)
(* and weight are always strings, and when the '.metrics' text holds no    *)
(* '/' or the element is missing, weight is the empty string.              *)
C16_WeightIsString ==
    \A c \in DOMAIN calls :
        Fulfilled(c, "getPlayerRankings") \/ Fulfilled(c, "getSchoolCommits") =>
            \A k \in 1..Len(calls[c].result.out) :
                /\ calls[c].result.out[k].height.t = "string"
                /\ calls[c].result.out[k].weight.t = "string"
                /\ (\A i \in 1..Len(TextOf(Source(c, k).metrics)) :
                        TextOf(Source(c, k).metrics)[i] # "/")
                   => calls[c].result.out[k].weight = Str(<<>>)

(* the trimmed text of the first element of a selection *)
FirstText(sel) == Trim(TextOf(First(sel)))

(* C17: every text field is the trimmed text of the first sub-element that *)
(* matches its selector, not the concatenation of all the matches.         *)
C17_FirstMatchOnly ==
    \A c \in DOMAIN calls :
        calls[c].pc = "fulfilled" =>
            \A k \in 1..Len(calls[c].result.out) :
                LET e == Source(c, k)
                    r == calls[c].result.out[k]
                IN CASE calls[c].op = "getPlayerRankings" ->
                            /\ r.name = FirstText(e.nameLink)
                            /\ r.highSchool = FirstText(e.meta)
                            /\ r.position = FirstText(e.position)
                            /\ r.rating = FirstText(FullTexts(e.score))
                     [] calls[c].op = "getSchoolRankings" ->
                            /\ r.rank = FirstText(e.rankPrimary)
                            /\ r.school = FirstText(e.nameLink)
                            /\ r.totalCommits = FirstText(e.totalLink)
                            /\ r.averageRating = FirstText(e.avg)
                            /\ r.points = FirstText(e.number)
                     [] calls[c].op = "getSchoolCommits" ->
                            /\ r.name = FirstText(e.nameLink)
                            /\ r.highSchool = FirstText(e.meta)
                            /\ r.position = FirstText(e.position)
                            /\ r.rating = FirstText(OwnTexts(e.score))
                            /\ r.nationalRank = FirstText(e.natrank)
                            /\ r.stateRank = FirstText(e.sttrank)
                            /\ r.positionRank = FirstText(e.posrank)

(* C18: header rows never become records: no record returned by any of    *)
(* the three operations was built from an element that carries the class   *)
(* 'rankings-page__list-item--header'.                                     *)
C18_NoRecordFromHeader ==
    \A c \in DOMAIN calls :
        calls[c].pc = "fulfilled" =>
            \A k \in 1..Len(calls[c].result.out) : ~Source(c, k).header

(* C19: getPlayerRankings and getSchoolRankings discard nothing: they      *)
(* return exactly one record for each element their item selector matches, *)
(* those with empty name and rating included, and the ranking of a player  *)
(* is its place among the matched elements of the page, not among the      *)
(* records returned.                                                       *)
C19_NothingDiscarded ==
    \A c \in DOMAIN calls :
        Fulfilled(c, "getPlayerRankings") \/ Fulfilled(c, "getSchoolRankings") =>
            /\ calls[c].result.from =
                   Ascending(Listed(calls[c].op, calls[c].data))
            /\ calls[c].op = "getPlayerRankings" =>
                   \A k \in 1..Len(calls[c].result.out) :
                       calls[c].result.out[k].ranking =
                           1 + 50 * (Default(calls[c].page, 1) - 1)
                             + Cardinality(
                                 { i \in Listed(calls[c].op, calls[c].data) :
                                     i < calls[c].result.from[k] })

(* a player without name and rating is returned, and the one after it is   *)
(* ranked second *)
C19_Witness ==
    \E c \in DOMAIN calls :
        /\ Fulfilled(c, "getPlayerRankings")
        /\ calls[c].data = <<"bare", "full">>
        /\ ~calls[c].page.given
        /\ Len(calls[c].result.out) = 2
        /\ calls[c].result.out[1].name = <<>>
        /\ calls[c].result.out[1].rating = <<>>
        /\ calls[c].result.out[2].ranking = 2

(* C20: missing sub-elements never fail a record: whatever sub-elements a  *)
(* candidate lacks, every text field of its record that is read from a     *)
(* lacking sub-element is the empty string and stars is 0 without the star *)
(* block, and a call ends in error only when its fetch failed.             *)
C20_MissingGivesEmpty ==
    \A c \in DOMAIN calls :
        /\ calls[c].pc = "rejected" => calls[c].thrown \in FetchErrors
        /\ calls[c].pc = "fulfilled" =>
            \A k \in 1..Len(calls[c].result.out) :
                LET e == Source(c, k)
                    r == calls[c].result.out[k]
                IN IF calls[c].op = "getSchoolRankings"
                   THEN /\ e.rankPrimary = <<>> => r.rank = <<>>
                        /\ e.nameLink = <<>> => r.school = <<>>
                        /\ e.totalLink = <<>> => r.totalCommits = <<>>
                        /\ e.starDivs = <<>> =>
                               /\ r.fiveStars = <<>>
                               /\ r.fourStars = <<>>
                               /\ r.threeStars = <<>>
                        /\ e.avg = <<>> => r.averageRating = <<>>
                        /\ e.number = <<>> => r.points = <<>>
                   ELSE /\ e.nameLink = <<>> => r.name = <<>>
                        /\ e.meta = <<>> => r.highSchool = <<>>
                        /\ e.position = <<>> => r.position = <<>>
                        /\ e.metrics = <<>> =>
                               r.height = Str(<<>>) /\ r.weight = Str(<<>>)
                        /\ e.yellow = 0 => r.stars = 0
                        /\ e.score = <<>> => r.rating = <<>>
                        /\ calls[c].op = "getSchoolCommits" =>
                               /\ e.natrank = <<>> => r.nationalRank = <<>>
                               /\ e.sttrank = <<>> => r.stateRank = <<>>
                               /\ e.posrank = <<>> => r.positionRank = <<>>

(* C21: within one call the fetch is the only suspension point: parsing    *)
(* and record construction start only from a call waiting for its one      *)
(* fetch, and in the same step the call is fulfilled with all its records, *)
(* while every other call stays as it was; a call that has ended is never  *)
(* touched again, and a rejected call has parsed and built nothing.        *)
C21_RunToCompletion ==
    [][\A c \in DOMAIN calls :
         /\ calls'[c].parsed # calls[c].parsed
            \/ calls'[c].result # calls[c].result
            \/ calls'[c].data # calls[c].data
            => /\ calls[c].pc = "awaiting" /\ calls[c].fetches = 1
               /\ ~calls[c].parsed /\ calls[c].result = NoRecords
               /\ calls'[c].pc = "fulfilled" /\ calls'[c].parsed
               /\ calls'[c].result.out =
                      Alone(calls[c].op, Default(calls[c].page, 1),
                            calls'[c].data)
               /\ \A d \in DOMAIN calls \ {c} : calls'[d] = calls[d]
         /\ calls[c].pc \in {"fulfilled", "rejected"} => calls'[c] = calls[c]
         /\ calls'[c].pc = "rejected" =>
                ~calls'[c].parsed /\ calls'[c].result = NoRecords
         /\ calls'[c].pc = "awaiting" =>
                ~calls'[c].parsed /\ calls'[c].result = NoRecords
    ]_vars

(* a call that built its three records while the other call was waiting   *)
(* for its page, and the other call is waiting still *)
C21_Witness ==
    \E c, d \in DOMAIN calls :
        /\ c # d
        /\ calls[c].pc = "fulfilled" /\ calls[c].parsed
        /\ Len(calls[c].data) = 3
        /\ Len(calls[c].result.out) >= 2
        /\ calls[c].beside = {d}
        /\ calls[d].pc = "awaiting" /\ ~calls[d].parsed
        /\ calls[d].result = NoRecords

(* C22: for the same document and the same page the football and the      *)
(* men's-basketball implementation of an operation return the same         *)
(* records, and in football the rankings types "Composite" and "247"       *)
(* differ in the URL of the request only.                                  *)
C22_SportUniformity ==
    \A c, d \in DOMAIN calls :
        /\ calls[c].pc = "fulfilled" /\ calls[d].pc = "fulfilled"
           /\ calls[c].op = calls[d].op
           /\ calls[c].data = calls[d].data
           /\ Default(calls[c].page, 1) = Default(calls[d].page, 1)
           => calls[c].result = calls[d].result
        /\ calls[c].op = "getPlayerRankings" /\ calls[d].op = "getPlayerRankings"
           /\ calls[c].sport = "Football" /\ calls[d].sport = "Football"
           /\ calls[c].pc \in {"awaiting", "fulfilled"}
           /\ calls[d].pc \in {"awaiting", "fulfilled"}
           /\ Default(calls[c].rankingsType, "Composite") = "Composite"
           /\ calls[d].rankingsType = Arg("247")
           => /\ calls[c].request.path # calls[d].request.path
              /\ Default(calls[c].page, 1) = Default(calls[d].page, 1)
                 => calls[c].request.params = calls[d].request.params

(* the same page of three elements read by football and by basketball      *)
(* getPlayerRankings, the football call of type "247": the same two players *)
C22_Witness ==
    \E c, d \in DOMAIN calls :
        /\ Fulfilled(c, "getPlayerRankings") /\ Fulfilled(d, "getPlayerRankings")
        /\ calls[c].sport = "Football" /\ calls[d].sport = "Basketball"
        /\ calls[c].rankingsType = Arg("247")
        /\ calls[c].data = <<"header", "full", "blank-name">>
        /\ calls[d].data = calls[c].data
        /\ calls[c].page = Arg(2) /\ calls[d].page = Arg(2)
        /\ Len(calls[c].result.out) = 2
        /\ calls[d].result.out = calls[c].result.out

(* the dates value a request carries, in its params or in its URL *)
CarriesDates(req) == "dates" \in DOMAIN req.params \/ "dates" \in DOMAIN req.url
DatesCarried(req) ==
    IF "dates" \in DOMAIN req.params THEN req.params.dates ELSE req.url.dates

(* a whole number below 100 as two digits *)
TwoDigits(n) == <<DigitChars[(n \div 10) + 1], DigitChars[(n % 10) + 1]>>

(* C23: the request of getSchedule and of getScoreboard, football and      *)
(* men's basketball, carries a dates value only when year, month and day   *)
(* are all given, and then it is the year followed by the month and the    *)
(* day as two digits each; with any of the three omitted it carries none.  *)
C23_DatesOnlyWhenComplete ==
    \A c \in DOMAIN calls :
        calls[c].op \in {"getSchedule", "getScoreboard"}
        /\ calls[c].pc # "idle" =>
            IF calls[c].year.given /\ calls[c].month.given /\ calls[c].day.given
            THEN /\ CarriesDates(calls[c].request)
                 /\ DatesCarried(calls[c].request) =
                        <<"2", "0", "2", "1">>
                        \o TwoDigits(calls[c].month.v.v)
                        \o TwoDigits(calls[c].day.v.v)
            ELSE ~CarriesDates(calls[c].request)

====
